---- MODULE Spec2Model ----
(***************************************************************************)
(* Model of the two dashboard scripts of the repository.                   *)
(*                                                                         *)
(*   src/code.py  the shared price history GLOBAL_PRICE_HISTORY, fed by    *)
(*                the REST seed (seed_price_once) and by the websocket     *)
(*                threads (start_ws_for_asset / run_ws_forever /           *)
(*                _on_message), all synchronised on GLOBAL_LOCK.           *)
(*   src/app.py   BitcoinPriceStreamer.get_price (REST polling with API    *)
(*                fallback) and the auto-refresh block that stores its     *)
(*                result in the bounded deque price_data.                  *)
(*                                                                         *)
(* Spec and LiveSpec are the behaviours of code.py, AppSpec those of       *)
(* app.py.  Prices are integers standing for the floats of the code; the   *)
(* "time" of a tick is the number of datetime.utcnow() calls made so far.  *)
(* ASSETS holds the single asset "bitcoin", so the per-asset dictionaries  *)
(* are modelled by their "bitcoin" entry (a missing entry is <<>>/"none"). *)
(***************************************************************************)
EXTENDS Integers, Sequences, FiniteSets, TLC

(***************************************************************************)
(* Bounds of the model.                                                    *)
(***************************************************************************)
\* src/code.py:18 sets 1800; the model keeps the same code with a small bound.
HISTORY_MAX_POINTS == 3
\* src/app.py:52 sets maxlen=500; scaled the same way.
PRICE_DATA_MAXLEN == 3
\* Number of ticks (datetime.utcnow() calls) a behaviour may create.
MaxTicks == 4

Sessions == {"s1", "s2"}
ThreadIds == <<"t1", "t2">>
Threads == {ThreadIds[i] : i \in 1..Len(ThreadIds)}

TrackedAsset == "bitcoin"
StreamPrices == {-1, 100}
SeedPrices == {90}

\* Inbound websocket messages: unparseable JSON, an object without the
\* tracked key, a tracked key with a value float() rejects, and a tracked
\* key with a numeric value.
BadJson == [wellFormed |-> FALSE, key |-> "", numeric |-> FALSE, price |-> 0]
OtherKey == [wellFormed |-> TRUE, key |-> "other", numeric |-> TRUE, price |-> 5]
NonNumeric == [wellFormed |-> TRUE, key |-> TrackedAsset, numeric |-> FALSE, price |-> 0]
PriceMsg(p) == [wellFormed |-> TRUE, key |-> TrackedAsset, numeric |-> TRUE, price |-> p]
Messages == {BadJson, OtherKey, NonNumeric} \cup {PriceMsg(p) : p \in StreamPrices}
NoMsg == [wellFormed |-> FALSE, key |-> "none", numeric |-> FALSE, price |-> 0]

VARIABLES
    GLOBAL_PRICE_HISTORY,  \* sequence of ticks [time, price, src] (src: ghost)
    GLOBAL_THREADS,        \* "none" or the thread last registered
    GLOBAL_LOCK,           \* "free" or the session / thread holding it
    scriptPc,              \* per session: position in the script
    seedTick,              \* per session: <<>> or <<tick>> fetched by the seed
    seedSawData,           \* per session (ghost): series non-empty at the seed call
    newThread,             \* per session: local t of start_ws_for_asset
    nthreads,              \* threads created so far
    wsPc,                  \* per thread: position in run_ws_forever
    hPc,                   \* per thread: position in _on_message
    msg,                   \* per thread: message being handled
    hTick,                 \* per thread: <<>> or <<tick>> parsed by _on_message
    clock,                 \* datetime.utcnow() calls so far
    appended,              \* ghost: every tick appended, in append order
    current_api,           \* app.py: BitcoinPriceStreamer.current_api
    connection_status,     \* app.py: st.session_state.connection_status
    is_running,            \* app.py: st.session_state.is_running
    price_data,            \* app.py: st.session_state.price_data (the prices)
    current_price,         \* app.py: st.session_state.current_price
    gpPc,                  \* app.py: position in get_price / the refresh block
    attempt,               \* app.py: loop variable of get_price
    requests,              \* app.py (ghost): APIs requested in this call
    responses,             \* app.py (ghost): what each request returned
    startApi,              \* app.py (ghost): current_api at the call
    result                 \* app.py: <<>> (None) or <<price>>

codeVars == <<GLOBAL_PRICE_HISTORY, GLOBAL_THREADS, GLOBAL_LOCK, scriptPc,
              seedTick, seedSawData, newThread, nthreads, wsPc, hPc, msg, hTick,
              clock, appended>>
appVars == <<current_api, connection_status, is_running, price_data,
             current_price, gpPc, attempt, requests, responses, startApi, result>>
vars == <<codeVars, appVars>>

(***************************************************************************)
(* Helpers.                                                                *)
(***************************************************************************)
Tick(t, p, s) == [time |-> t, price |-> p, src |-> s]

\* threading.Thread.is_alive(): true from start() until run() returns.
IsAlive(t) == wsPc[t] \in {"connecting", "streaming", "returned", "sleeping"}

\* Variant of SeriesNonEmpty: the early return of the seed is never taken.
SeriesNonEmptyNever == FALSE
\* `if GLOBAL_PRICE_HISTORY.get(asset_id):` -- a missing or empty list is falsy.
SeriesNonEmpty == Len(GLOBAL_PRICE_HISTORY) > 0

\* json.loads(message), `asset_id in payload`, float(payload[asset_id]):
\* "raises" when json.loads or float raises, "skip" when the key is absent,
\* "tick" when a price was read.
ParseOutcome(m) ==
    IF ~m.wellFormed THEN "raises"
    ELSE IF m.key # TrackedAsset THEN "skip"
    ELSE IF ~m.numeric THEN "raises"
    ELSE "tick"

\* Variant of OnParseError: the handler without its except clause.
OnParseErrorEscapes == "escapes"
\* `except Exception as e: print("on_message error:", e)`: the handler
\* swallows what parsing raises.
OnParseError == "caught"

\* Variant of AfterException: the exception ends run_ws_forever.
AfterExceptionDies == "terminated"
\* `except Exception as e: ... time.sleep(5)` inside `while True`: an
\* exception out of run_forever leaves the thread sleeping, in the loop.
AfterException == "sleeping"

\* `if len(lst) > HISTORY_MAX_POINTS: lst.pop(0)`
Trim(lst) == IF Len(lst) > HISTORY_MAX_POINTS THEN Tail(lst) ELSE lst

(***************************************************************************)
(* Initial state: the module-level globals of code.py and the session      *)
(* state of app.py as first initialised.                                   *)
(***************************************************************************)
apis == <<"Binance", "CoinGecko", "Coinbase">>

Init ==
    /\ GLOBAL_PRICE_HISTORY = <<>>
    /\ GLOBAL_THREADS = "none"
    /\ GLOBAL_LOCK = "free"
    /\ scriptPc = [s \in Sessions |-> "idle"]
    /\ seedTick = [s \in Sessions |-> <<>>]
    /\ seedSawData = [s \in Sessions |-> FALSE]
    /\ newThread = [s \in Sessions |-> "none"]
    /\ nthreads = 0
    /\ wsPc = [t \in Threads |-> "unborn"]
    /\ hPc = [t \in Threads |-> "idle"]
    /\ msg = [t \in Threads |-> NoMsg]
    /\ hTick = [t \in Threads |-> <<>>]
    /\ clock = 0
    /\ appended = <<>>
    /\ current_api = 0
    /\ connection_status = <<"Disconnected">>
    /\ is_running = FALSE
    /\ price_data = <<>>
    /\ current_price = 0
    /\ gpPc = "idle"
    /\ attempt = 0
    /\ requests = <<>>
    /\ responses = <<>>
    /\ startApi = 0
    /\ result = <<>>

(***************************************************************************)
(* code.py, the script body: seed_price_once(asset), then                  *)
(* start_ws_for_asset(asset).  Each Streamlit session runs the script in   *)
(* its own thread, so the runs interleave; each member of Sessions is one  *)
(* run of the script, from "idle" to "done".                               *)
(***************************************************************************)
sessionLocal == <<wsPc, hPc, msg, hTick, nthreads>>

\* A run of the script reaches the call seed_price_once(asset); seedSawData
\* records whether the series held a tick at the call.
ScriptRun(s) ==
    /\ scriptPc[s] = "idle"
    /\ scriptPc' = [scriptPc EXCEPT ![s] = "seed_lock1"]
    /\ seedSawData' = [seedSawData EXCEPT ![s] = Len(GLOBAL_PRICE_HISTORY) > 0]
    /\ UNCHANGED <<GLOBAL_PRICE_HISTORY, GLOBAL_THREADS, GLOBAL_LOCK, seedTick,
                   newThread, clock, appended, sessionLocal, appVars>>

\* seed_price_once: `with GLOBAL_LOCK:` (first block), acquiring.
SeedLock1(s) ==
    /\ scriptPc[s] = "seed_lock1"
    /\ GLOBAL_LOCK = "free"
    /\ GLOBAL_LOCK' = s
    /\ scriptPc' = [scriptPc EXCEPT ![s] = "seed_check"]
    /\ UNCHANGED <<GLOBAL_PRICE_HISTORY, GLOBAL_THREADS, seedTick, seedSawData,
                   newThread, clock, appended, sessionLocal, appVars>>

\* seed_price_once: the emptiness check under the lock; the lock is released
\* on return and on leaving the block.
SeedCheck(s) ==
    /\ scriptPc[s] = "seed_check"
    /\ GLOBAL_LOCK = s
    /\ GLOBAL_LOCK' = "free"
    /\ scriptPc' = [scriptPc EXCEPT ![s] =
                       IF SeriesNonEmpty THEN "start_check" ELSE "seed_fetch"]
    /\ UNCHANGED <<GLOBAL_PRICE_HISTORY, GLOBAL_THREADS, seedTick, seedSawData,
                   newThread, clock, appended, sessionLocal, appVars>>

\* seed_price_once: the REST fetch, outside the lock.  It raises (timeout,
\* HTTP error, missing priceUsd) and the except clause returns, or it yields
\* a price and the timestamp is taken.
SeedFetch(s) ==
    /\ scriptPc[s] = "seed_fetch"
    /\ \/ /\ scriptPc' = [scriptPc EXCEPT ![s] = "start_check"]
          /\ UNCHANGED <<seedTick, clock>>
       \/ /\ clock < MaxTicks
          /\ \E p \in SeedPrices :
                seedTick' = [seedTick EXCEPT ![s] = <<Tick(clock, p, "seed")>>]
          /\ clock' = clock + 1
          /\ scriptPc' = [scriptPc EXCEPT ![s] = "seed_lock2"]
    /\ UNCHANGED <<GLOBAL_PRICE_HISTORY, GLOBAL_THREADS, GLOBAL_LOCK, seedSawData,
                   newThread, appended, sessionLocal, appVars>>

\* seed_price_once: `with GLOBAL_LOCK:` (second block), acquiring.
SeedLock2(s) ==
    /\ scriptPc[s] = "seed_lock2"
    /\ GLOBAL_LOCK = "free"
    /\ GLOBAL_LOCK' = s
    /\ scriptPc' = [scriptPc EXCEPT ![s] = "seed_append"]
    /\ UNCHANGED <<GLOBAL_PRICE_HISTORY, GLOBAL_THREADS, seedTick, seedSawData,
                   newThread, clock, appended, sessionLocal, appVars>>

\* seed_price_once: setdefault(asset_id, []).append(tick), lock released.
SeedAppend(s) ==
    /\ scriptPc[s] = "seed_append"
    /\ GLOBAL_LOCK = s
    /\ GLOBAL_PRICE_HISTORY' = Append(GLOBAL_PRICE_HISTORY, seedTick[s][1])
    /\ appended' = Append(appended, seedTick[s][1])
    /\ seedTick' = [seedTick EXCEPT ![s] = <<>>]
    /\ GLOBAL_LOCK' = "free"
    /\ scriptPc' = [scriptPc EXCEPT ![s] = "start_check"]
    /\ UNCHANGED <<GLOBAL_THREADS, seedSawData, newThread, clock,
                   sessionLocal, appVars>>

\* start_ws_for_asset: return when a registered thread is alive (no lock).
StartCheck(s) ==
    /\ scriptPc[s] = "start_check"
    /\ scriptPc' = [scriptPc EXCEPT ![s] =
                       IF GLOBAL_THREADS # "none" /\ IsAlive(GLOBAL_THREADS)
                       THEN "done" ELSE "start_register"]
    /\ UNCHANGED <<GLOBAL_PRICE_HISTORY, GLOBAL_THREADS, GLOBAL_LOCK, seedTick,
                   seedSawData, newThread, clock, appended, sessionLocal, appVars>>

\* start_ws_for_asset: t = threading.Thread(...); GLOBAL_THREADS[asset_id] = t
StartRegister(s) ==
    /\ scriptPc[s] = "start_register"
    /\ nthreads < Len(ThreadIds)
    /\ nthreads' = nthreads + 1
    /\ newThread' = [newThread EXCEPT ![s] = ThreadIds[nthreads + 1]]
    /\ GLOBAL_THREADS' = ThreadIds[nthreads + 1]
    /\ wsPc' = [wsPc EXCEPT ![ThreadIds[nthreads + 1]] = "created"]
    /\ scriptPc' = [scriptPc EXCEPT ![s] = "start_thread"]
    /\ UNCHANGED <<GLOBAL_PRICE_HISTORY, GLOBAL_LOCK, seedTick, seedSawData,
                   clock, appended, hPc, msg, hTick, appVars>>

\* start_ws_for_asset: t.start() -- run_ws_forever enters its loop.
StartThread(s) ==
    /\ scriptPc[s] = "start_thread"
    /\ wsPc' = [wsPc EXCEPT ![newThread[s]] = "connecting"]
    /\ newThread' = [newThread EXCEPT ![s] = "none"]
    /\ scriptPc' = [scriptPc EXCEPT ![s] = "done"]
    /\ UNCHANGED <<GLOBAL_PRICE_HISTORY, GLOBAL_THREADS, GLOBAL_LOCK, seedTick,
                   seedSawData, clock, appended, nthreads, hPc, msg, hTick, appVars>>

(***************************************************************************)
(* code.py, run_ws_forever: one background thread per start.               *)
(*   "connecting"  at the top of the loop: WebSocketApp(...).run_forever() *)
(*   "streaming"   inside run_forever, connection open                     *)
(*   "returned"    run_forever returned (the library reported the error or *)
(*                 close through on_error / on_close); back in the loop    *)
(*   "sleeping"    in the except clause, in time.sleep(5)                  *)
(*   "terminated"  run_ws_forever returned: the thread is no longer alive  *)
(* The library calls _on_message on the thread that runs run_forever, so   *)
(* the connection's fate is decided between two messages (hPc = "idle").   *)
(***************************************************************************)
threadLocal == <<GLOBAL_THREADS, scriptPc, seedTick, seedSawData, newThread,
                 nthreads>>

\* The handshake: it succeeds, or run_forever returns having reported the
\* failure to on_error, or an exception leaves run_forever.
WsConnect(t) ==
    /\ wsPc[t] = "connecting"
    /\ \E next \in {"streaming", "returned", AfterException} :
          wsPc' = [wsPc EXCEPT ![t] = next]
    /\ UNCHANGED <<GLOBAL_PRICE_HISTORY, GLOBAL_LOCK, hPc, msg, hTick, clock, appended,
                   threadLocal, appVars>>

\* The connection drops or is closed: on_error / on_close print, and
\* run_forever returns normally.
WsClose(t) ==
    /\ wsPc[t] = "streaming"
    /\ hPc[t] = "idle"
    /\ wsPc' = [wsPc EXCEPT ![t] = "returned"]
    /\ UNCHANGED <<GLOBAL_PRICE_HISTORY, GLOBAL_LOCK, hPc, msg, hTick, clock, appended,
                   threadLocal, appVars>>

\* An exception leaves run_forever: `except Exception`, print, time.sleep(5).
WsRaise(t) ==
    /\ wsPc[t] = "streaming"
    /\ hPc[t] = "idle"
    /\ wsPc' = [wsPc EXCEPT ![t] = AfterException]
    /\ UNCHANGED <<GLOBAL_PRICE_HISTORY, GLOBAL_LOCK, hPc, msg, hTick, clock, appended,
                   threadLocal, appVars>>

\* `while True:` after run_forever returned: the next iteration starts at
\* once, the except clause (and its sleep) was not entered.
WsLoopAgain(t) ==
    /\ wsPc[t] = "returned"
    /\ wsPc' = [wsPc EXCEPT ![t] = "connecting"]
    /\ UNCHANGED <<GLOBAL_PRICE_HISTORY, GLOBAL_LOCK, hPc, msg, hTick, clock, appended,
                   threadLocal, appVars>>

\* time.sleep(5) is over: the next iteration of `while True:`.
WsSleepDone(t) ==
    /\ wsPc[t] = "sleeping"
    /\ wsPc' = [wsPc EXCEPT ![t] = "connecting"]
    /\ UNCHANGED <<GLOBAL_PRICE_HISTORY, GLOBAL_LOCK, hPc, msg, hTick, clock, appended,
                   threadLocal, appVars>>

(***************************************************************************)
(* code.py, make_on_message._on_message.                                   *)
(***************************************************************************)
\* The library delivers a message: _on_message(ws, message) is entered.
\* (A message that yields a tick needs a timestamp the bound still allows.)
WsMessage(t) ==
    /\ wsPc[t] = "streaming"
    /\ hPc[t] = "idle"
    /\ \E m \in Messages :
          /\ ParseOutcome(m) = "tick" => clock < MaxTicks
          /\ msg' = [msg EXCEPT ![t] = m]
    /\ hPc' = [hPc EXCEPT ![t] = "parse"]
    /\ UNCHANGED <<GLOBAL_PRICE_HISTORY, GLOBAL_LOCK, wsPc, hTick, clock, appended,
                   threadLocal, appVars>>

\* json.loads, the key test, float(), utcnow() -- all before the lock.  What
\* they raise is caught by the handler's except clause; were it not, it
\* would leave run_forever like any other exception.
OnMessageParse(t) ==
    /\ hPc[t] = "parse"
    /\ msg' = [msg EXCEPT ![t] = NoMsg]
    /\ IF ParseOutcome(msg[t]) = "tick"
       THEN /\ hTick' = [hTick EXCEPT ![t] = <<Tick(clock, msg[t].price, "ws")>>]
            /\ clock' = clock + 1
            /\ hPc' = [hPc EXCEPT ![t] = "lock"]
            /\ wsPc' = wsPc
       ELSE /\ hPc' = [hPc EXCEPT ![t] = "idle"]
            /\ wsPc' = IF ParseOutcome(msg[t]) = "raises" /\ OnParseError # "caught"
                       THEN [wsPc EXCEPT ![t] = AfterException]
                       ELSE wsPc
            /\ UNCHANGED <<hTick, clock>>
    /\ UNCHANGED <<GLOBAL_PRICE_HISTORY, GLOBAL_LOCK, appended, threadLocal, appVars>>

\* `with GLOBAL_LOCK:`, acquiring.
OnMessageLock(t) ==
    /\ hPc[t] = "lock"
    /\ GLOBAL_LOCK = "free"
    /\ GLOBAL_LOCK' = t
    /\ hPc' = [hPc EXCEPT ![t] = "append"]
    /\ UNCHANGED <<GLOBAL_PRICE_HISTORY, wsPc, msg, hTick, clock, appended,
                   threadLocal, appVars>>

\* lst = setdefault(asset_id, []); lst.append(tick)
OnMessageAppend(t) ==
    /\ hPc[t] = "append"
    /\ GLOBAL_LOCK = t
    /\ GLOBAL_PRICE_HISTORY' = Append(GLOBAL_PRICE_HISTORY, hTick[t][1])
    /\ appended' = Append(appended, hTick[t][1])
    /\ hTick' = [hTick EXCEPT ![t] = <<>>]
    /\ hPc' = [hPc EXCEPT ![t] = "trim"]
    /\ UNCHANGED <<GLOBAL_LOCK, wsPc, msg, clock, threadLocal, appVars>>

\* if len(lst) > HISTORY_MAX_POINTS: lst.pop(0); the lock is released.
OnMessageTrim(t) ==
    /\ hPc[t] = "trim"
    /\ GLOBAL_LOCK = t
    /\ GLOBAL_PRICE_HISTORY' = Trim(GLOBAL_PRICE_HISTORY)
    /\ GLOBAL_LOCK' = "free"
    /\ hPc' = [hPc EXCEPT ![t] = "idle"]
    /\ UNCHANGED <<wsPc, msg, hTick, clock, appended, threadLocal, appVars>>

CodeNext ==
    \/ \E s \in Sessions :
          \/ ScriptRun(s)
          \/ SeedLock1(s)
          \/ SeedCheck(s)
          \/ SeedFetch(s)
          \/ SeedLock2(s)
          \/ SeedAppend(s)
          \/ StartCheck(s)
          \/ StartRegister(s)
          \/ StartThread(s)
    \/ \E t \in Threads :
          \/ WsConnect(t)
          \/ WsClose(t)
          \/ WsRaise(t)
          \/ WsLoopAgain(t)
          \/ WsSleepDone(t)
          \/ WsMessage(t)
          \/ OnMessageParse(t)
          \/ OnMessageLock(t)
          \/ OnMessageAppend(t)
          \/ OnMessageTrim(t)

Spec == Init /\ [][CodeNext]_vars

\* The background thread is a running OS thread: each step of its loop that
\* is enabled is eventually taken.
LiveSpec ==
    /\ Init
    /\ [][CodeNext]_vars
    /\ \A t \in Threads : WF_vars(WsLoopAgain(t)) /\ WF_vars(WsSleepDone(t))

(***************************************************************************)
(* Properties of code.py.                                                  *)
(***************************************************************************)
LastN(seq, n) ==
    IF Len(seq) <= n THEN seq ELSE SubSeq(seq, Len(seq) - n + 1, Len(seq))

AliveThreads == {t \in Threads : IsAlive(t)}

\* C1: whenever GLOBAL_LOCK is free (no mutation is in progress), the price
\* history holds at most HISTORY_MAX_POINTS ticks, under every interleaving
\* of the seed and the message handler.
C1_HistoryBounded ==
    GLOBAL_LOCK = "free" => Len(GLOBAL_PRICE_HISTORY) <= HISTORY_MAX_POINTS

\* C2: a seed tick is appended only to a series that is empty at the moment
\* of the append: of all ticks ever appended, only the first can be a seed
\* tick (at most one seeded tick, none behind a tick of the stream).
C2_SeedOnlyIfEmpty ==
    \A i \in DOMAIN appended : appended[i].src = "seed" => i = 1

\* C3: at most one streaming thread is alive at any time.
C3_AtMostOneClient == Cardinality(AliveThreads) <= 1

\* C4: every stored tick has a price > 0 (a tick with price <= 0 is dropped).
C4_NoNonPositivePrice ==
    \A i \in DOMAIN GLOBAL_PRICE_HISTORY : GLOBAL_PRICE_HISTORY[i].price > 0

\* C5: eviction is FIFO: once a mutation is complete, the series is exactly
\* the last min(n, HISTORY_MAX_POINTS) ticks appended, in append order.
C5_FifoLastN ==
    GLOBAL_LOCK = "free" =>
        GLOBAL_PRICE_HISTORY = LastN(appended, HISTORY_MAX_POINTS)

\* C6: a thread whose connection failed, errored or closed goes back to
\* connecting only out of the 5 second sleep.
C6_DelayBeforeReconnect ==
    [][\A t \in Threads :
          (IsAlive(t) /\ wsPc[t] # "connecting" /\ wsPc'[t] = "connecting")
              => wsPc[t] = "sleeping"]_vars

\* C7: the streaming thread never terminates; after every error or close it
\* eventually makes another connection attempt; and the error, the close and
\* the reconnection leave the stored ticks as they are.
C7_NeverStops ==
    /\ [](\A t \in Threads : wsPc[t] # "terminated")
    /\ [][\A t \in Threads :
             (wsPc'[t] # wsPc[t] /\ wsPc[t] \in {"streaming", "returned", "sleeping"})
                 => GLOBAL_PRICE_HISTORY' = GLOBAL_PRICE_HISTORY]_vars
    /\ \A t \in Threads :
          (wsPc[t] \in {"returned", "sleeping"}) ~> (wsPc[t] = "connecting")

\* A thread is sleeping after an exception while ticks are stored.
C7_Witness ==
    \E t \in Threads : wsPc[t] = "sleeping" /\ Len(GLOBAL_PRICE_HISTORY) >= 1

C9_SeedSkipsWhenNonEmpty ==
    [][\A s \in Sessions :
          seedSawData[s] =>
              /\ scriptPc[s] \notin {"seed_fetch", "seed_lock2", "seed_append"}
              /\ scriptPc'[s] \notin {"seed_fetch", "seed_lock2", "seed_append"}
              /\ (scriptPc'[s] # scriptPc[s]
                     /\ scriptPc[s] \in {"seed_lock1", "seed_check"})
                  => GLOBAL_PRICE_HISTORY' = GLOBAL_PRICE_HISTORY]_vars

\* A seed call made on a non-empty series has returned.
C9_Witness ==
    \E s \in Sessions : seedSawData[s] /\ scriptPc[s] = "start_check"

(***************************************************************************)
(* app.py: BitcoinPriceStreamer.get_price and the auto-refresh block.      *)
(* connection_status is the tuple of the parts of the string the code      *)
(* builds (<<"Connected", name>> for f"Connected ({api['name']})").  A     *)
(* stored sample is modelled by its price.                                 *)
(***************************************************************************)
AppPrices == {100, 110}

\* What requests.get gives: a non-200 status (or a raised timeout), a 200
\* whose body the parser rejects, or a 200 with a price.
Responses ==
    {[status |-> 500, parses |-> FALSE, price |-> 0],
     [status |-> 200, parses |-> FALSE, price |-> 0]}
    \cup {[status |-> 200, parses |-> TRUE, price |-> p] : p \in AppPrices}

\* `if response.status_code == 200: price = api['parser'](response.json())`
\* returns; anything else raises into the except clause.
Succeeds(r) == r.status = 200 /\ r.parses

\* Variant of NextApi: a failed API is tried again.
NextApiStuck(i) == i
\* self.current_api = (self.current_api + 1) % len(self.apis)
NextApi(i) == (i + 1) % Len(apis)

\* deque(maxlen=...).append(x): a full deque drops its leftmost item.
DequeAppend(d, x) ==
    IF Len(d) >= PRICE_DATA_MAXLEN THEN Append(Tail(d), x) ELSE Append(d, x)

\* The "Start Stream" button (disabled while running).
StartStream ==
    /\ gpPc = "idle"
    /\ ~is_running
    /\ is_running' = TRUE
    /\ UNCHANGED <<current_api, connection_status, price_data, current_price, gpPc,
                   attempt, requests, responses, startApi, result, codeVars>>

\* The "Stop Stream" button (disabled while stopped).
StopStream ==
    /\ gpPc = "idle"
    /\ is_running
    /\ is_running' = FALSE
    /\ UNCHANGED <<current_api, connection_status, price_data, current_price, gpPc,
                   attempt, requests, responses, startApi, result, codeVars>>

\* `if st.session_state.is_running: price = streamer.get_price()`: the call.
GetPriceCall ==
    /\ gpPc = "idle"
    /\ is_running
    /\ gpPc' = "loop"
    /\ attempt' = 0
    /\ requests' = <<>>
    /\ responses' = <<>>
    /\ startApi' = current_api
    /\ result' = <<>>
    /\ UNCHANGED <<current_api, connection_status, is_running, price_data,
                   current_price, codeVars>>

\* One iteration of `for attempt in range(len(self.apis))`.
GetPriceAttempt ==
    /\ gpPc = "loop"
    /\ attempt < Len(apis)
    /\ \E r \in Responses :
          /\ requests' = Append(requests, current_api)
          /\ responses' = Append(responses, r)
          /\ IF Succeeds(r)
             THEN /\ connection_status' = <<"Connected", apis[current_api + 1]>>
                  /\ result' = <<r.price>>
                  /\ gpPc' = "returned"
                  /\ UNCHANGED <<current_api, attempt>>
             ELSE /\ current_api' = NextApi(current_api)
                  /\ attempt' = attempt + 1
                  /\ UNCHANGED <<connection_status, result, gpPc>>
    /\ UNCHANGED <<is_running, price_data, current_price, startApi, codeVars>>

\* The loop is exhausted: "All APIs Failed", return None.
GetPriceExhausted ==
    /\ gpPc = "loop"
    /\ attempt = Len(apis)
    /\ connection_status' = <<"All APIs Failed">>
    /\ result' = <<>>
    /\ gpPc' = "returned"
    /\ UNCHANGED <<current_api, is_running, price_data, current_price, attempt,
                   requests, responses, startApi, codeVars>>

\* `if price is not None:` append to price_data and set current_price.
RefreshStore ==
    /\ gpPc = "returned"
    /\ gpPc' = "idle"
    /\ IF result # <<>>
       THEN /\ price_data' = DequeAppend(price_data, result[1])
            /\ current_price' = result[1]
       ELSE UNCHANGED <<price_data, current_price>>
    /\ UNCHANGED <<current_api, connection_status, is_running, attempt, requests,
                   responses, startApi, result, codeVars>>

AppNext ==
    \/ StartStream
    \/ StopStream
    \/ GetPriceCall
    \/ GetPriceAttempt
    \/ GetPriceExhausted
    \/ RefreshStore

AppSpec == Init /\ [][AppNext]_vars

\* C10: get_price requests at most len(apis) APIs, in cyclic order from the
\* current_api of the call; it returns None, with "All APIs Failed" and
\* current_api back at its start, exactly when all of them failed, and
\* otherwise the price of the first API that succeeded, with current_api
\* and connection_status naming that API.
C10_GetPriceFallback ==
    /\ Len(requests) <= Len(apis)
    /\ Len(responses) = Len(requests)
    /\ \A i \in 1..Len(requests) : requests[i] = (startApi + i - 1) % Len(apis)
    /\ gpPc = "returned" =>
          /\ (result = <<>>) <=>
                 /\ Len(requests) = Len(apis)
                 /\ \A i \in 1..Len(requests) : ~Succeeds(responses[i])
          /\ result = <<>> =>
                 /\ connection_status = <<"All APIs Failed">>
                 /\ current_api = startApi
          /\ result # <<>> =>
                 /\ Len(requests) >= 1
                 /\ Succeeds(responses[Len(requests)])
                 /\ \A i \in 1..(Len(requests) - 1) : ~Succeeds(responses[i])
                 /\ result = <<responses[Len(requests)].price>>
                 /\ current_api = requests[Len(requests)]
                 /\ connection_status = <<"Connected", apis[requests[Len(requests)] + 1]>>

\* get_price returned the price of the third API tried, the call having
\* started at an API other than the first.
C10_Witness ==
    /\ gpPc = "returned"
    /\ result # <<>>
    /\ Len(requests) = Len(apis)
    /\ startApi # 0

====
